---- MODULE Spec2Model ----
(***************************************************************************)
(* twitter-media-downloader: the run of start_download (src/twitter/mod.rs) *)
(* as a state machine.  One run resolves the account, then loops:          *)
(* get_checkpoint, the checkpoint test, download_media (one page, one      *)
(* media key per step), update_checkpoint (create, write, sync_all).       *)
(* The Twitter API, the HTTP GET and the file system are the environment:  *)
(* their answers are chosen with \E from small sets.                       *)
(***************************************************************************)
EXTENDS Integers, Sequences, FiniteSets, TLC

(***************************************************************************)
(* Bounds of the model.                                                    *)
(***************************************************************************)
\* u64 is modelled IdBits wide: u64::MAX is 2^IdBits - 1 (two decimal digits).
IdBits == 4
\* Config::count, the page size asked of the provider: a page holds at most
\* MaxCount posts.
MaxCount == 2
\* The loop of start_download is followed for at most MaxPages iterations.
MaxPages == 3

(***************************************************************************)
(* Text and numbers.  A text is a sequence of characters; the checkpoint   *)
(* file holds a text, u64::to_string writes one and str::parse reads one.  *)
(***************************************************************************)
U64Max == 2^IdBits - 1

Digits == <<"0", "1", "2", "3", "4", "5", "6", "7", "8", "9">>

IsDigit(c) == \E i \in 1..10 : Digits[i] = c

DigitVal(c) == (CHOOSE i \in 1..10 : Digits[i] = c) - 1

RECURSIVE U64ToString(_)
\* u64::to_string: the decimal digits, most significant first, no sign.
U64ToString(n) ==
    IF n < 10 THEN <<Digits[n + 1]>>
    ELSE U64ToString(n \div 10) \o <<Digits[(n % 10) + 1]>>

ParseErr == 0 - 1

RECURSIVE ParseDigits(_, _)
\* The digit loop of str::parse::<u64>: a non-digit or a value above u64::MAX
\* is an error (ParseErr).
ParseDigits(s, acc) ==
    IF s = <<>> THEN acc
    ELSE IF ~IsDigit(Head(s)) THEN ParseErr
    ELSE IF acc * 10 + DigitVal(Head(s)) > U64Max THEN ParseErr
    ELSE ParseDigits(Tail(s), acc * 10 + DigitVal(Head(s)))

\* str::parse::<u64>: an optional leading "+", then at least one digit.
ParseU64(s) ==
    IF s = <<>> THEN ParseErr
    ELSE IF Head(s) = "+" THEN
        (IF Tail(s) = <<>> THEN ParseErr ELSE ParseDigits(Tail(s), 0))
    ELSE ParseDigits(s, 0)

\* A slip of line 119: unwrap_or_default() for unwrap_or(u64::MAX).
ParseOrZero(s) == IF ParseU64(s) = ParseErr THEN 0 ELSE ParseU64(s)

\* contents.parse::<u64>().unwrap_or(u64::MAX)
ParseOrMax(s) == IF ParseU64(s) = ParseErr THEN U64Max ELSE ParseU64(s)

(***************************************************************************)
(* Option values are sequences of length at most one.                      *)
(***************************************************************************)
None == <<>>

Some(v) == <<v>>

(***************************************************************************)
(* The provider's answers.  A tweet carries an id and its attachments; the *)
(* expansions carry the media; the meta carries oldest_id.                 *)
(***************************************************************************)
\* The media the provider knows (Media: media_key, kind, url).  "zz" is a key
\* a tweet may name that no expansion holds.
MediaKeys == {"p1", "p2", "nu", "v1"}

MediaOf(key) ==
    CASE key = "p1" -> [media_key |-> "p1", kind |-> "Photo", url |-> Some(<<"media", "a.jpg">>)]
      [] key = "p2" -> [media_key |-> "p2", kind |-> "Photo", url |-> Some(<<"media", "b.jpg">>)]
      [] key = "nu" -> [media_key |-> "nu", kind |-> "Photo", url |-> None]
      [] key = "v1" -> [media_key |-> "v1", kind |-> "Video", url |-> None]

\* tweet.attachments: None, Some without media_keys, or Some with media_keys.
NoAttachments == None

Attachments(keys) == Some([media_keys |-> keys])

AttachmentChoices ==
    { NoAttachments,
      Attachments(None),
      Attachments(Some(<<"p1">>)),
      Attachments(Some(<<"nu", "p2", "v1", "zz">>)) }

\* The ids of the tweets of a page of n tweets, newest first: n + 1 down to 2.
TweetId(i, n) == (n - i) + 2

TweetLists ==
    UNION { { [i \in 1..n |-> [id |-> TweetId(i, n), attachments |-> a[i]]] :
                a \in [1..n -> AttachmentChoices] } : n \in 0..MaxCount }

\* into_includes(): None, expansions without media, expansions with the media.
IncludesChoices ==
    { None,
      Some([media |-> None]),
      Some([media |-> Some(MediaKeys)]) }

\* into_meta(): None, or a meta whose oldest_id is None or the text of an id.
MetaChoices ==
    { None,
      Some([oldest_id |-> None]),
      Some([oldest_id |-> Some(U64ToString(0))]),
      Some([oldest_id |-> Some(U64ToString(2))]) }

\* The responses to get_user_tweets: into_data() is None or the tweets.
Responses ==
    { [data |-> d, includes |-> inc, meta |-> m] :
        d \in {None} \cup { Some(t) : t \in TweetLists },
        inc \in IncludesChoices,
        m \in MetaChoices }

NoResponse == [data |-> None, includes |-> None, meta |-> None]

(***************************************************************************)
(* The state of one run.                                                   *)
(***************************************************************************)
VARIABLES
    download_all,   \* Config::download_all
    username,       \* Config::username
    reset_marker,   \* Config::reset_marker
    reset_once,     \* start_download's reset_once (line 38)
    pc,             \* where the run stands
    iter,           \* iterations of the loop of start_download begun
    dir_exists,     \* the user's output directory exists
    ckfile,         \* the checkpoint file: [exists, text]
    checkpoint,     \* start_download's checkpoint, the value get_checkpoint gave
    uc,             \* update_checkpoint's call: [text, ret, old, returned], the
                    \* caller in ret, the file as the call found it in old (while
                    \* it runs), what it returned in returned
    page,           \* download_media's tweets_response
    pos,            \* the media key download_media stands at, in Items(page)
    count,          \* download_media's count
    total_count,    \* start_download's total_count
    files,          \* the local media files that exist
    torn,           \* those of them whose bytes were not all written
    result,         \* what start_download returned: [kind, total, msg]
    net,            \* the requests sent to the provider: [lookups, pages]
    downloaded,     \* the files download_url wrote in full during the run
    attempted,      \* the positions of the page download_url was called at
    failed,         \* those of them where it returned an error
    got,            \* those of them where it sent the GET of the file
    stop            \* the early stop of the page, if any: [hit, tweet, count]

vars ==
    << download_all, username, reset_marker, reset_once, pc, iter, dir_exists, ckfile,
       checkpoint, uc, page, pos, count, total_count, files, torn, result,
       net, downloaded, attempted, failed, got, stop >>

\* The file system and the result of the run.
NoFile == [exists |-> FALSE, text |-> <<>>]

FileWith(text) == [exists |-> TRUE, text |-> text]

Running == [kind |-> "Running", total |-> 0, msg |-> ""]

\* Ok("Ok") of the checkpoint test (line 51).
OkPlain == [kind |-> "Ok", total |-> 0, msg |-> "Ok"]

\* Ok("Download complete. {} files downloaded.") (line 76).
Summary(n) == [kind |-> "Summary", total |-> n, msg |-> "Download complete"]

\* Err(..) returned by start_download through `?`.
Failure(msg) == [kind |-> "Err", total |-> 0, msg |-> msg]

\* A panic of an unwrap() in start_download.
Panic(msg) == [kind |-> "Panic", total |-> 0, msg |-> msg]

NoStop == [hit |-> FALSE, tweet |-> 0, count |-> 0]

\* The contents the checkpoint file may have when the run starts: absent,
\* not a number, 0, an id, an id written with a sign.
InitialCheckpoints ==
    { NoFile,
      FileWith(<<"x">>),
      FileWith(U64ToString(0)),
      FileWith(U64ToString(5)),
      FileWith(<<"+", "7">>) }

\* url.path().split("/").last().unwrap_or("")
Basename(url) == IF url = <<>> THEN "" ELSE url[Len(url)]

\* format!("{}_{}_{}", media.media_key, username, filename)
LocalFilename(user, media) == << media.media_key, user, Basename(media.url[1]) >>

Usernames == {"", "u"}

\* The local files a previous run may have left.
KnownFiles(user) ==
    { LocalFilename(user, MediaOf(k)) : k \in { k \in MediaKeys : MediaOf(k).url # None } }

Init ==
    /\ download_all \in BOOLEAN
    /\ username \in Usernames
    /\ reset_marker \in BOOLEAN
    /\ reset_once = reset_marker
    /\ pc = "start"
    /\ iter = 0
    /\ dir_exists \in BOOLEAN
    /\ ckfile \in InitialCheckpoints
    /\ (~dir_exists => ckfile = NoFile)
    /\ checkpoint = U64Max
    /\ uc = [text |-> <<>>, ret |-> "none", old |-> NoFile, returned |-> None]
    /\ page = NoResponse
    /\ pos = 0
    /\ count = 0
    /\ total_count = 0
    /\ files \in SUBSET KnownFiles(username)
    /\ (~dir_exists => files = {})
    /\ torn = {}
    /\ result = Running
    /\ net = [lookups |-> 0, pages |-> 0]
    /\ downloaded = 0
    /\ attempted = {}
    /\ failed = {}
    /\ got = {}
    /\ stop = NoStop

(***************************************************************************)
(* start_download, up to its loop.                                         *)
(***************************************************************************)
\* The run ends: start_download returns r (or panics with it).
Return(r) ==
    /\ result' = r
    /\ pc' = "done"

\* get_twitter_id (lines 136-156), called at line 36 with `?`.  The answers of
\* the lookup: a transport error, no data, a user of id 0, a user of id > 0.
LookupAnswers == {"transport_error", "no_data", "id_zero", "found"}

\* A slip of line 139: the test of the username is left out.
UsernameMissingNever(name) == FALSE

\* Line 139: config.username.len() == 0
UsernameMissing(name) == name = ""

ResolveIdentity ==
    /\ pc = "start"
    /\ IF UsernameMissing(username)
       THEN /\ Return(Failure("username is required to lookup user id"))
            /\ UNCHANGED net
       ELSE \E answer \in LookupAnswers :
            /\ net' = [net EXCEPT !.lookups = @ + 1]
            /\ CASE answer = "transport_error" ->
                        Return(Failure("lookup failed"))
                 [] answer \in {"no_data", "id_zero"} ->
                        Return(Failure("Cannot find id for username"))
                 [] answer = "found" ->
                        /\ pc' = "mkdir"
                        /\ UNCHANGED result
    /\ UNCHANGED << download_all, username, reset_marker, reset_once, iter, dir_exists, ckfile,
                    checkpoint, uc, page, pos, count, total_count, files, torn,
                    downloaded, attempted, failed, got, stop >>

\* get_user_output_dir (lines 82-94) at line 40, unwrapped; then lines 41-44.
CreateOutputDir ==
    /\ pc = "mkdir"
    /\ \E created \in BOOLEAN :
        IF created \/ dir_exists
        THEN /\ dir_exists' = TRUE
             /\ total_count' = 0
             /\ pc' = "loop"
             /\ UNCHANGED result
        ELSE /\ Return(Panic("get_user_output_dir"))
             /\ UNCHANGED << dir_exists, total_count >>
    /\ UNCHANGED << download_all, username, reset_marker, reset_once, iter, ckfile, checkpoint,
                    uc, page, pos, count, files, torn, net, downloaded,
                    attempted, failed, got, stop >>

(***************************************************************************)
(* The checkpoint store: get_checkpoint and update_checkpoint.             *)
(***************************************************************************)
\* A slip of line 114: reset_marker is not looked at.
NeedsSentinelIgnoresReset(reset, file) == ~file.exists

\* Line 114: reset_marker || !Path::new(..).exists()
NeedsSentinel(reset, file) == reset \/ ~file.exists

\* A slip of line 47: reset_once is left as it is.
ResetKept(reset) == reset

\* Line 47: reset_once = false, once get_checkpoint has returned.
ResetAfterRead(reset) == FALSE

\* The loop of start_download reads the checkpoint (line 46): get_checkpoint
\* either calls update_checkpoint with the text of u64::MAX (line 115) or
\* reads and parses the file (lines 118-119); read_to_string may fail.
LoopStart ==
    /\ pc = "loop"
    /\ iter < MaxPages
    /\ iter' = iter + 1
    /\ IF NeedsSentinel(reset_once, ckfile)
       THEN /\ uc' = [text |-> U64ToString(U64Max), ret |-> "get_checkpoint", old |-> ckfile,
                    returned |-> None]
            /\ pc' = "uc_create"
            /\ UNCHANGED << checkpoint, reset_once, result >>
       ELSE \E read \in BOOLEAN :
            IF read
            THEN /\ checkpoint' = ParseOrMax(ckfile.text)
                 /\ reset_once' = ResetAfterRead(reset_once)
                 /\ pc' = "check"
                 /\ UNCHANGED << uc, result >>
            ELSE /\ Return(Failure("read_to_string"))
                 /\ UNCHANGED << checkpoint, reset_once, uc >>
    /\ UNCHANGED << download_all, username, reset_marker, dir_exists, ckfile, page, pos, count,
                    total_count, files, torn, net, downloaded, attempted, failed,
                    got, stop >>

\* A slip of line 49: the test is against the sentinel, not against 0.
AllConsumedIsSentinel(c) == c = U64Max

\* A slip of line 49: the sentinel is taken for the end of the history too.
AllConsumedOrSentinel(c) == c = 0 \/ c = U64Max

\* Line 49: checkpoint == 0
AllConsumed(c) == c = 0

\* Lines 49-54: the checkpoint test.
CheckpointCheck ==
    /\ pc = "check"
    /\ IF AllConsumed(checkpoint)
       THEN Return(OkPlain)
       ELSE /\ pc' = "fetch"
            /\ UNCHANGED result
    /\ UNCHANGED << download_all, username, reset_marker, reset_once, iter, dir_exists, ckfile,
                    checkpoint, uc, page, pos, count, total_count, files, torn,
                    net, downloaded, attempted, failed, got, stop >>

\* Line 127: File::create makes the file or truncates it to no content.
Created(file) == FileWith(<<>>)

\* A slip of line 128: writeln! for write, a line end follows the text.
WrittenWithNewline(file, text) == FileWith(text \o <<"\n">>)

\* Line 128: file.write(checkpoint.as_bytes()).  The few bytes of a cursor are
\* taken to be written whole or not at all.
Written(file, text) == FileWith(text)

\* A slip of lines 64-66: the loop goes on whatever download_all.
AfterAdvanceNeverBreaks(all) == "continue"

\* Lines 64-68: break unless download_all, else sleep and loop.
AfterAdvance(all) == IF ~all THEN "break" ELSE "continue"

\* Line 130: Ok(checkpoint.into()), the text update_checkpoint was given.
Returned(text) == Some(text)

\* update_checkpoint failed: get_checkpoint hands the error on with `?`
\* (lines 115, 46); start_download unwraps it (line 60).
UcFail(msg) ==
    IF uc.ret = "get_checkpoint" THEN Return(Failure(msg)) ELSE Return(Panic(msg))

\* Line 127.
UcCreate ==
    /\ pc = "uc_create"
    /\ \E created \in BOOLEAN :
        IF created /\ dir_exists
        THEN /\ ckfile' = Created(ckfile)
             /\ pc' = "uc_write"
             /\ UNCHANGED result
        ELSE /\ UcFail("File::create")
             /\ UNCHANGED ckfile
    /\ UNCHANGED << download_all, username, reset_marker, reset_once, iter, dir_exists,
                    checkpoint, uc, page, pos, count, total_count, files, torn,
                    net, downloaded, attempted, failed, got, stop >>

\* Line 128.
UcWrite ==
    /\ pc = "uc_write"
    /\ \E written \in BOOLEAN :
        IF written
        THEN /\ ckfile' = Written(ckfile, uc.text)
             /\ pc' = "uc_sync"
             /\ UNCHANGED result
        ELSE /\ UcFail("write")
             /\ UNCHANGED ckfile
    /\ UNCHANGED << download_all, username, reset_marker, reset_once, iter, dir_exists,
                    checkpoint, uc, page, pos, count, total_count, files, torn,
                    net, downloaded, attempted, failed, got, stop >>

\* download_media's locals; they are dropped when the loop goes on.
PageLocals == << page, pos, count, attempted, failed, got, stop >>

\* Lines 129-130, and the return to the caller: get_checkpoint returns
\* u64::MAX (line 116) and line 47 follows; start_download goes on at line 62.
UcSync ==
    /\ pc = "uc_sync"
    /\ \E synced \in BOOLEAN :
        IF ~synced
        THEN /\ UcFail("sync_all")
             /\ UNCHANGED << checkpoint, reset_once, uc, PageLocals >>
        ELSE /\ uc' = [uc EXCEPT !.old = NoFile, !.returned = Returned(uc.text)]
             /\ IF uc.ret = "get_checkpoint"
                THEN /\ checkpoint' = U64Max
                     /\ reset_once' = ResetAfterRead(reset_once)
                     /\ pc' = "check"
                     /\ UNCHANGED << result, PageLocals >>
                ELSE /\ IF AfterAdvance(download_all) = "break"
                        THEN /\ Return(Summary(total_count))
                             /\ UNCHANGED PageLocals
                        ELSE /\ pc' = "loop"
                             /\ page' = NoResponse
                             /\ pos' = 0
                             /\ count' = 0
                             /\ attempted' = {}
                             /\ failed' = {}
                             /\ got' = {}
                             /\ stop' = NoStop
                             /\ UNCHANGED result
                     /\ UNCHANGED << checkpoint, reset_once >>
    /\ UNCHANGED << download_all, username, reset_marker, iter, dir_exists, ckfile,
                    total_count, files, torn, net, downloaded >>

(***************************************************************************)
(* download_media: one page.                                               *)
(***************************************************************************)
\* generate_media_map (lines 249-261): the media keys of the expansions.
MediaMap(includes) ==
    IF includes = None THEN {}
    ELSE IF includes[1].media = None THEN {}
    ELSE includes[1].media[1]

\* The media keys of one tweet, in order, as the two `if let` of lines 203-204
\* give them to the loop of line 205.
KeysOf(tweet) ==
    IF tweet.attachments = None THEN <<>>
    ELSE IF tweet.attachments[1].media_keys = None THEN <<>>
    ELSE tweet.attachments[1].media_keys[1]

RECURSIVE ItemsFrom(_, _)
ItemsFrom(tweets, i) ==
    IF i > Len(tweets) THEN <<>>
    ELSE [k \in 1..Len(KeysOf(tweets[i])) |-> [tweet |-> i, key |-> KeysOf(tweets[i])[k]]]
         \o ItemsFrom(tweets, i + 1)

\* The iterations of the loops of lines 202 and 205, in order: each is a
\* tweet of the page and one of its media keys.  No data, no iteration.
Items(response) ==
    IF response.data = None THEN <<>> ELSE ItemsFrom(response.data[1], 1)

\* A slip of line 207: the kind of the media is not looked at.
IsPhotoAnyKind(response, key) == key \in MediaMap(response.includes)

\* Lines 206-207: the key is in the media map and the media is a photo.
IsPhoto(response, key) ==
    /\ key \in MediaMap(response.includes)
    /\ MediaOf(key).kind = "Photo"

\* A slip of line 280: the path tested is not the path written.
ExistsNever(file, fs) == FALSE

\* Line 280: Path::new(&local_filename).exists()
Exists(file, fs) == file \in fs

\* Lines 211-213: download_url returned Ok(d).
BailsOut(d, all) == ~d /\ ~all

\* A slip of line 215: the id of the first tweet of the page.
BailIdOfFirstTweet(tweet, response) == U64ToString(response.data[1][1].id)

\* A slip of line 215: the marker of the page is returned, not the tweet's id.
BailIdOfMarker(tweet, response) == U64ToString(checkpoint)

\* Line 215: the checkpoint an early stop returns.
BailId(tweet, response) == U64ToString(tweet.id)

\* A slip of lines 218-221: the error ends the loops over the page.
AfterItemErrorLeavesPage(p, response) == Len(Items(response)) + 1

\* A slip of lines 218-221: the key that failed is tried again.
AfterItemErrorRetries(p, response) == p

\* Lines 218-221: download_url returned an error: go on with the next key.
AfterItemError(p, response) == p + 1

\* A slip of lines 236-240: a meta without oldest_id gives the default id.
ReturnOfMetaOldestDefaults(meta) ==
    IF meta = None THEN [ok |-> FALSE, oldest_id |-> <<>>, msg |-> "Cannot access Tweets Meta"]
    ELSE IF meta[1].oldest_id = None THEN [ok |-> TRUE, oldest_id |-> U64ToString(0), msg |-> ""]
    ELSE [ok |-> TRUE, oldest_id |-> meta[1].oldest_id[1], msg |-> ""]

\* Lines 235-244: what download_media returns past the loop.
ReturnOfMeta(meta) ==
    IF meta = None THEN [ok |-> FALSE, oldest_id |-> <<>>, msg |-> "Cannot access Tweets Meta"]
    ELSE IF meta[1].oldest_id = None THEN [ok |-> FALSE, oldest_id |-> <<>>, msg |-> "No more tweets"]
    ELSE [ok |-> TRUE, oldest_id |-> meta[1].oldest_id[1], msg |-> ""]

\* Were line 56 written with `?`: the error of download_media is returned.
OnDownloadErrorReturned(total, msg) == Failure(msg)

\* Lines 70-76: download_media returned an error: warn, break, report.
OnDownloadError(total, msg) == Summary(total)

\* Lines 57-60: download_media returned Ok((oldest_id, n)): add n to the total
\* and call update_checkpoint with oldest_id.
OnDownloadOk(oldest_id, n) ==
    /\ total_count' = total_count + n
    /\ uc' = [text |-> oldest_id, ret |-> "start_download", old |-> ckfile, returned |-> None]
    /\ pc' = "uc_create"
    /\ UNCHANGED result

\* Lines 171-196: the directory, the request, its response.
FetchPage ==
    /\ pc = "fetch"
    /\ count' = 0
    /\ attempted' = {}
    /\ failed' = {}
    /\ got' = {}
    /\ \E answer \in {"dir_error", "transport_error", "response"} :
        CASE answer = "dir_error" ->
                /\ Return(OnDownloadError(total_count, "get_user_output_dir"))
                /\ UNCHANGED << net, page, pos >>
          [] answer = "transport_error" ->
                /\ net' = [net EXCEPT !.pages = @ + 1]
                /\ Return(OnDownloadError(total_count, "send"))
                /\ UNCHANGED << page, pos >>
          [] answer = "response" ->
                /\ net' = [net EXCEPT !.pages = @ + 1]
                /\ \E r \in Responses : page' = r
                /\ pos' = 1
                /\ pc' = "process"
                /\ UNCHANGED result
    /\ UNCHANGED << download_all, username, reset_marker, reset_once, iter, dir_exists, ckfile,
                    checkpoint, uc, total_count, files, torn, downloaded, stop >>

\* The answers of the GET and of the write of the file (lines 281-283): all
\* written, the request or its body failed, File::create failed, write_all
\* failed after File::create.
GetAnswers == {"written", "net_error", "create_error", "write_error"}

\* Lines 205-225: one media key of one tweet; download_url is lines 268-294.
ProcessItem ==
    /\ pc = "process"
    /\ pos <= Len(Items(page))
    /\ LET item == Items(page)[pos]
           tweet == page.data[1][item.tweet]
           media == MediaOf(item.key)
           file == LocalFilename(username, media)
           Next_ == /\ pos' = pos + 1
                    /\ UNCHANGED << pc, result, uc, total_count, stop >>
       IN
       IF ~IsPhoto(page, item.key)
       THEN /\ Next_
            /\ UNCHANGED << files, torn, got, count, downloaded, attempted, failed >>
       ELSE
       /\ attempted' = attempted \cup {pos}
       /\ IF media.url = None
          THEN \* line 292: Err("Media url not available.")
               /\ failed' = failed \cup {pos}
               /\ pos' = AfterItemError(pos, page)
               /\ UNCHANGED << pc, result, uc, total_count, stop, files, torn,
                               got, count, downloaded >>
          ELSE IF Exists(file, files)
          THEN \* line 289: Ok(false)
               /\ UNCHANGED << files, torn, got, count, downloaded, failed >>
               /\ IF BailsOut(FALSE, download_all)
                  THEN /\ stop' = [hit |-> TRUE, tweet |-> item.tweet, count |-> count]
                       /\ OnDownloadOk(BailId(tweet, page), count)
                       /\ UNCHANGED pos
                  ELSE Next_
          ELSE \E answer \in GetAnswers :
               /\ got' = got \cup {pos}
               /\ IF answer = "written"
                  THEN \* line 286: Ok(true)
                       /\ files' = files \cup {file}
                       /\ count' = count + 1
                       /\ downloaded' = downloaded + 1
                       /\ Next_
                       /\ UNCHANGED << torn, failed >>
                  ELSE /\ failed' = failed \cup {pos}
                       /\ pos' = AfterItemError(pos, page)
                       /\ IF answer = "write_error"
                          THEN /\ files' = files \cup {file}
                               /\ torn' = torn \cup {file}
                          ELSE UNCHANGED << files, torn >>
                       /\ UNCHANGED << pc, result, uc, total_count, stop, count,
                                       downloaded >>
    /\ UNCHANGED << download_all, username, reset_marker, reset_once, iter, dir_exists, ckfile,
                    checkpoint, page, net >>

\* Lines 233-244, past the loops, and the match of start_download on what
\* download_media returned (lines 56-60, 70-73).
FinishPage ==
    /\ pc = "process"
    /\ pos > Len(Items(page))
    /\ LET ret == ReturnOfMeta(page.meta)
       IN IF ret.ok
          THEN OnDownloadOk(ret.oldest_id, count)
          ELSE /\ Return(OnDownloadError(total_count, ret.msg))
               /\ UNCHANGED << uc, total_count >>
    /\ UNCHANGED << download_all, username, reset_marker, reset_once, iter, dir_exists, ckfile,
                    checkpoint, page, pos, count, files, torn, net, downloaded,
                    attempted, failed, got, stop >>

Next ==
    \/ ResolveIdentity
    \/ CreateOutputDir
    \/ LoopStart
    \/ CheckpointCheck
    \/ FetchPage
    \/ ProcessItem
    \/ FinishPage
    \/ UcCreate
    \/ UcWrite
    \/ UcSync

Spec == Init /\ [][Next]_vars

(***************************************************************************)
(* The checkpoint store on its own: get_checkpoint as line 46 calls it on  *)
(* any file, and update_checkpoint as line 60 calls it with the text of    *)
(* any u64, followed by the get_checkpoint of the next iteration.          *)
(***************************************************************************)
\* What the checkpoint file may hold: nothing, no text, texts that are no
\* number, a number too large for u64, numbers.
StoredFiles ==
    { NoFile,
      FileWith(<<>>),
      FileWith(<<"x">>),
      FileWith(<<"1", "x">>),
      FileWith(U64ToString(U64Max) \o <<"0">>),
      FileWith(<<"+", "7">>),
      FileWith(U64ToString(0)),
      FileWith(U64ToString(U64Max)) }

InitStore ==
    /\ download_all = TRUE
    /\ username = "u"
    /\ reset_marker \in BOOLEAN
    /\ dir_exists = TRUE
    /\ ckfile \in StoredFiles
    /\ checkpoint = U64Max
    /\ \/ /\ pc = "loop"
          /\ iter = 0
          /\ reset_once = reset_marker
          /\ uc = [text |-> <<>>, ret |-> "none", old |-> NoFile, returned |-> None]
       \/ /\ pc = "uc_create"
          /\ iter = 1
          /\ reset_once = FALSE
          /\ \E n \in 0..U64Max :
                uc = [text |-> U64ToString(n), ret |-> "start_download", old |-> ckfile,
                      returned |-> None]
    /\ page = NoResponse
    /\ pos = 0
    /\ count = 0
    /\ total_count = 0
    /\ files = {}
    /\ torn = {}
    /\ result = Running
    /\ net = [lookups |-> 1, pages |-> iter]
    /\ downloaded = 0
    /\ attempted = {}
    /\ failed = {}
    /\ got = {}
    /\ stop = NoStop

NextStore ==
    \/ LoopStart
    \/ UcCreate
    \/ UcWrite
    \/ UcSync

SpecStore == InitStore /\ [][NextStore]_vars

(***************************************************************************)
(* The run against a provider that keeps to the cursor: the tweets of a    *)
(* page and its oldest_id are strictly older than the until_id asked for   *)
(* (line 191), and the history is finite, ids being no less than 0.  The   *)
(* run is one sequential flow of control, and each step it waits for       *)
(* returns: weak fairness of the next step.                                *)
(***************************************************************************)
Honest(response, cursor) ==
    /\ response.data # None =>
            \A i \in 1..Len(response.data[1]) : response.data[1][i].id < cursor
    /\ (response.meta # None /\ response.meta[1].oldest_id # None) =>
            /\ ParseU64(response.meta[1].oldest_id[1]) # ParseErr
            /\ ParseU64(response.meta[1].oldest_id[1]) < cursor

FetchPageHonest ==
    /\ FetchPage
    /\ pc' = "process" => Honest(page', checkpoint)

NextHonest ==
    \/ ResolveIdentity
    \/ CreateOutputDir
    \/ LoopStart
    \/ CheckpointCheck
    \/ FetchPageHonest
    \/ ProcessItem
    \/ FinishPage
    \/ UcCreate
    \/ UcWrite
    \/ UcSync

SpecHonest == Init /\ [][NextHonest]_vars /\ WF_vars(NextHonest)

(***************************************************************************)
(* The properties.                                                         *)
(***************************************************************************)
UcStates == {"uc_create", "uc_write", "uc_sync"}

Success == {"Ok", "Summary"}

\* C1: the total start_download reports when it ends equals the number of
\* files downloaded during the run, on every path to the end (so a first page
\* that downloads 2 files and ends with "no more data" reports 2).
C1_ReportedTotalIsDownloaded ==
    (pc = "done" /\ result.kind = "Summary") => result.total = downloaded

\* C2: not in download_all mode, once a photo is skipped because its file
\* exists, download_url is called no more (the skip is the last call, and it
\* sent no GET), update_checkpoint is called with the id of the tweet that
\* owns the media, and the run ends reporting the files downloaded before the
\* skip, with that id in the checkpoint file, after one page.
C2_EarlyStop ==
    stop.hit =>
        /\ ~download_all
        /\ pos \in attempted
        /\ pos \notin got
        /\ \A q \in attempted : q <= pos
        /\ \A q \in attempted \ {pos} : q \in got \/ q \in failed
        /\ stop.tweet = Items(page)[pos].tweet
        /\ uc.text = U64ToString(page.data[1][stop.tweet].id)
        /\ uc.ret = "start_download"
        /\ stop.count = Cardinality(got \ failed)
        /\ stop.count = downloaded
        /\ total_count = stop.count
        /\ net.pages = 1
        /\ pc \in UcStates \cup {"done"}
        /\ (pc = "done" => result.kind \in {"Summary", "Panic"})
        /\ (pc = "done" /\ result.kind = "Summary" =>
                /\ result.total = stop.count
                /\ ckfile = FileWith(uc.text))

\* C2 happens: the photo of the 2nd tweet of the page is already there, the 1st
\* tweet's was downloaded, the run reports 1 file, the checkpoint is the 2nd
\* tweet's id.
C2_Witness ==
    /\ stop.hit
    /\ stop.tweet = 2
    /\ pc = "done"
    /\ result = Summary(1)
    /\ ckfile = FileWith(U64ToString(page.data[1][2].id))
    /\ page.meta # None

\* The positions of the page whose media key is in the media map and is a
\* photo: those download_url is to be called at.
PhotoPositions(response) ==
    { q \in 1..Len(Items(response)) : IsPhoto(response, Items(response)[q].key) }

\* C3: when update_checkpoint is called for a page that was not stopped early,
\* its text is the page's oldest_id and download_url has been called at every
\* photo position of the page, whatever failed; and every step over a media
\* key that does not stop early goes on to the next media key.
C3_AdvanceAfterWholePage ==
    /\ [](pc \in UcStates /\ uc.ret = "start_download" /\ ~stop.hit =>
            /\ ReturnOfMeta(page.meta).ok
            /\ uc.text = ReturnOfMeta(page.meta).oldest_id
            /\ attempted = PhotoPositions(page)
            /\ failed \subseteq attempted
            /\ total_count >= count)
    /\ [](download_all => ~stop.hit)
    /\ [][pc = "process" /\ pos <= Len(Items(page)) /\ ~stop'.hit =>
            pc' = "process" /\ pos' = pos + 1 /\ page' = page]_vars
    /\ [][pc = "process" /\ pos > Len(Items(page)) /\ ReturnOfMeta(page.meta).ok =>
            pc' = "uc_create" /\ uc'.text = ReturnOfMeta(page.meta).oldest_id]_vars

\* C3 happens: in download_all mode a page holds a photo whose file is there
\* already and, after it, a photo without URL and a photo that is downloaded;
\* the page's oldest_id is written to the checkpoint file.
C3_Witness ==
    /\ download_all
    /\ pc = "uc_sync"
    /\ uc.ret = "start_download"
    /\ ckfile = FileWith(ReturnOfMeta(page.meta).oldest_id)
    /\ \E a, b, c \in attempted :
        /\ a < b /\ b < c
        /\ a \notin got /\ a \notin failed
        /\ b \in failed
        /\ c \in got \ failed

\* C4: not in download_all mode a run sends at most one page request and
\* begins at most one iteration; the loop comes back for another iteration
\* only in download_all mode and only when update_checkpoint has written the
\* checkpoint of the page before.
C4_OnePageUnlessDownloadAll ==
    /\ (~download_all => net.pages <= 1 /\ iter <= 1)
    /\ net.pages <= iter
    /\ (pc = "loop" /\ iter >= 1 =>
            /\ download_all
            /\ uc.ret = "start_download"
            /\ ckfile = FileWith(uc.text)
            /\ net.pages = iter)

\* C4 happens: not in download_all mode the run has ended after the normal
\* advance of the checkpoint of its one page.
C4_Witness ==
    /\ ~download_all
    /\ pc = "done"
    /\ result.kind = "Summary"
    /\ ~stop.hit
    /\ net.pages = 1
    /\ uc.ret = "start_download"
    /\ ckfile = FileWith(uc.text)

\* C5: the checkpoint test sends every checkpoint above 0, u64::MAX included,
\* on to download_media and ends the run with Ok on checkpoint 0 without a
\* page request, in every iteration.
C5_CheckpointCheck ==
    [][pc = "check" =>
        IF checkpoint = 0
        THEN pc' = "done" /\ result' = OkPlain /\ net' = net /\ ckfile' = ckfile
        ELSE pc' = "fetch" /\ result' = result]_vars

\* C5 happens: the second iteration read checkpoint 0 and the run ended with
\* Ok after the one page request of the first iteration.
C5_Witness ==
    /\ iter = 2
    /\ pc = "done"
    /\ result = OkPlain
    /\ checkpoint = 0
    /\ net.pages = 1

\* The run was started without reset_marker on a checkpoint file that holds
\* 0, and update_checkpoint was never called since.
StartedAtZero ==
    /\ ~reset_marker
    /\ uc.ret = "none"
    /\ ckfile.exists
    /\ ParseU64(ckfile.text) = 0

EndedOnNoMeta ==
    /\ pc = "done"
    /\ pos > Len(Items(page))
    /\ page.data # None
    /\ page.meta = None

C8_ResetOnce ==
    /\ [][pc = "loop" /\ iter = 0 /\ reset_marker =>
            /\ pc' = "uc_create"
            /\ uc'.text = U64ToString(U64Max)
            /\ uc'.ret = "get_checkpoint"]_vars
    /\ [][uc'.ret = "get_checkpoint" /\ uc.ret # "get_checkpoint" => iter = 0]_vars
    /\ [](iter >= 1 /\ pc \in {"check", "fetch", "process", "loop"} => ~reset_once)
    /\ [][pc = "loop" /\ iter >= 1 =>
            /\ uc.ret = "start_download"
            /\ ckfile = FileWith(uc.text)
            /\ ckfile' = ckfile
            /\ \/ pc' = "check" /\ checkpoint' = ParseOrMax(uc.text)
               \/ pc' = "done" /\ result'.kind = "Err"]_vars

\* C8 happens: a run with reset_marker is in its second iteration and has read
\* back the oldest_id 2 of its first page.
C8_Witness ==
    /\ reset_marker
    /\ iter = 2
    /\ pc = "check"
    /\ checkpoint = 2
    /\ ckfile = FileWith(U64ToString(2))

\* update_checkpoint failed.
UcFailures == {"File::create", "write", "sync_all"}

\* C9 as stated: at every point of update_checkpoint, a failure included, the
\* file is as the call found it or holds the whole new text.
C9_AtomicWrite ==
    (pc \in UcStates \/ (pc = "done" /\ result.msg \in UcFailures)) =>
        (ckfile = uc.old \/ ckfile = FileWith(uc.text))

\* What update_checkpoint does instead: it truncates, then writes.  The file
\* is as the call found it until File::create, exists with no content between
\* File::create and the write (and stays so when the write fails), and holds
\* the whole new text from the write on, also once the call has returned.
UpdateTruncatesThenWrites ==
    /\ (pc = "uc_create" => ckfile = uc.old)
    /\ (pc = "uc_write" => ckfile = FileWith(<<>>))
    /\ (pc = "uc_sync" => ckfile = FileWith(uc.text))
    /\ (pc = "done" /\ result.msg = "File::create" => ckfile = uc.old)
    /\ (pc = "done" /\ result.msg = "write" => ckfile = FileWith(<<>>))
    /\ (pc = "done" /\ result.msg = "sync_all" => ckfile = FileWith(uc.text))
    /\ (pc \notin UcStates /\ result.msg \notin UcFailures /\ uc.ret # "none" =>
            ckfile = FileWith(uc.text))

\* C10: get_checkpoint with reset_marker, or without a file, calls
\* update_checkpoint with the text of u64::MAX whatever the file holds; when
\* update_checkpoint returns, get_checkpoint returns u64::MAX and the file
\* holds the text of u64::MAX.
C10_SentinelOnReset ==
    /\ [][pc = "loop" /\ (reset_once \/ ~ckfile.exists) =>
            /\ pc' = "uc_create"
            /\ uc' = [text |-> U64ToString(U64Max), ret |-> "get_checkpoint",
                      old |-> ckfile, returned |-> None]]_vars
    /\ [](pc \in UcStates /\ uc.ret = "get_checkpoint" =>
            uc.text = U64ToString(U64Max) /\ ParseU64(uc.text) = U64Max)
    /\ [][pc = "uc_sync" /\ uc.ret = "get_checkpoint" /\ pc' # "done" =>
            /\ pc' = "check"
            /\ checkpoint' = U64Max
            /\ ckfile' = FileWith(U64ToString(U64Max))]_vars

\* C10 happens: get_checkpoint with reset_marker found the file holding 0 and
\* the file now holds the text of u64::MAX.
C10_Witness ==
    /\ pc = "uc_sync"
    /\ reset_once
    /\ uc.ret = "get_checkpoint"
    /\ uc.old = FileWith(U64ToString(0))
    /\ ckfile = FileWith(U64ToString(U64Max))

\* C11: update_checkpoint returns the text it was given and leaves it as the
\* content of the file, and the get_checkpoint that follows without reset
\* returns the number the text is the decimal form of, for every u64.
C11_RoundTrip ==
    [][ /\ (pc = "uc_sync" /\ pc' # "done")
            => /\ uc'.returned = Some(uc.text)
               /\ ckfile' = FileWith(uc.text)
        /\ (pc = "loop" /\ uc.ret = "start_download" /\ ~reset_once /\ pc' = "check")
            => \A n \in 0..U64Max : uc.text = U64ToString(n) => checkpoint' = n
      ]_vars

\* The cursor U64Max - 1 was written by update_checkpoint and read back.
C11_Witness ==
    /\ pc = "check"
    /\ uc.ret = "start_download"
    /\ uc.text = U64ToString(U64Max - 1)
    /\ uc.returned = Some(U64ToString(U64Max - 1))
    /\ checkpoint = U64Max - 1

\* Contents of the checkpoint file that are no number: no text, no digit, a
\* digit followed by something else.
NotANumber == { <<>>, <<"x">>, <<"1", "x">> }

\* C12 as stated: whenever get_checkpoint, called without reset, has returned
\* the sentinel, the checkpoint file holds the text of the sentinel, as it
\* does after a missing file: a file that is no number ends in that state too.
C12_CorruptIsLikeMissing ==
    (pc = "check" /\ uc.ret # "start_download" /\ ~reset_marker /\ checkpoint = U64Max)
        => ckfile = FileWith(U64ToString(U64Max))

\* C12, amended: get_checkpoint, called without reset on a file whose text is
\* no number, returns the sentinel and no error once the file is read, calls
\* no update_checkpoint and leaves the file as it is; a file that cannot be
\* read is an error.
C12_CorruptGivesSentinel ==
    [][ (pc = "loop" /\ ~reset_once /\ ckfile.exists /\ ckfile.text \in NotANumber)
            => /\ ckfile' = ckfile
               /\ uc' = uc
               /\ \/ pc' = "check" /\ checkpoint' = U64Max /\ result' = result
                  \/ pc' = "done" /\ result' = Failure("read_to_string")
      ]_vars

\* get_checkpoint returned the sentinel for a file of no text, which is left.
C12_Witness ==
    /\ pc = "check"
    /\ uc.ret = "none"
    /\ ~reset_marker
    /\ ckfile = FileWith(<<>>)
    /\ checkpoint = U64Max

\* The media key download_media stood at, at position q of the page.
KeyAt(q) == Items(page)[q].key

\* Two calls of download_url within the page, the first at a, for the same
\* media item (the username and the output directory are those of the run).
TwoCalls(a, b) == a \in attempted /\ b \in attempted /\ a < b /\ KeyAt(a) = KeyAt(b)

\* C13 as stated: any two calls of download_url with the same media item
\* perform exactly one GET between them, and the second returns Ok(false).
C13_TwoCallsOneFetch ==
    \A a, b \in attempted :
        TwoCalls(a, b) => /\ Cardinality({a, b} \cap got) = 1
                          /\ b \notin got
                          /\ b \notin failed

\* C13, amended: after a call that found no local file and returned Ok(true),
\* every later call with the same media item sends no GET and returns
\* Ok(false); a call that finds the local file sends no GET, returns Ok(false)
\* and leaves the files as they are; and while the local file does not exist,
\* every call with a URL sends a GET.
C13_FetchedOnce ==
    /\ [](\A a, b \in attempted :
            TwoCalls(a, b) =>
                /\ (a \in got /\ a \notin failed) => (b \notin got /\ b \notin failed)
                /\ ( /\ MediaOf(KeyAt(a)).url # None
                     /\ LocalFilename(username, MediaOf(KeyAt(a))) \notin files )
                    => (a \in got /\ b \in got))
    /\ [][ ( /\ pc = "process"
             /\ pos <= Len(Items(page))
             /\ KeyAt(pos) \in MediaMap(page.includes)
             /\ MediaOf(KeyAt(pos)).kind = "Photo"
             /\ MediaOf(KeyAt(pos)).url # None
             /\ LocalFilename(username, MediaOf(KeyAt(pos))) \in files )
            => /\ got' = got
               /\ failed' = failed
               /\ files' = files
               /\ torn' = torn
               /\ count' = count
               /\ downloaded' = downloaded
          ]_vars

\* The same photo twice in a page: downloaded at the first call, found at the
\* second.
C13_Witness ==
    \E a, b \in attempted :
        /\ TwoCalls(a, b)
        /\ a \in got
        /\ a \notin failed
        /\ b \notin got
        /\ b \notin failed

\* C14: with download_all and a provider that keeps to the cursor, every run
\* ends; it goes on to the next page after each page whose checkpoint was
\* written, and ends only on checkpoint 0, on an error of download_media
\* ("no more data" among them), or on a failing step of its own.
C14_ExhaustiveTerminates ==
    /\ download_all => <>(pc = "done")
    /\ [][ (download_all /\ pc' = "done")
            => \/ pc = "check" /\ checkpoint = 0 /\ result' = OkPlain
               \/ pc \in {"fetch", "process"} /\ result' = Summary(total_count)
               \/ result'.kind \in {"Err", "Panic"}
          ]_vars

\* Three iterations with download_all: two pages, then checkpoint 0.
C14_Witness ==
    /\ download_all
    /\ pc = "done"
    /\ iter = 3
    /\ net.pages = 2
    /\ result = OkPlain

\* The page has no meta, or its meta has no oldest_id ("no more data").
NoOldestId(response) ==
    response.meta = None \/ response.meta[1].oldest_id = None

\* C15: an error of download_media (the directory, the request, no meta, no
\* oldest_id) ends the run with the checkpoint file as it was and without a
\* call of update_checkpoint; the file changes only within update_checkpoint,
\* which is called only by get_checkpoint with the sentinel (reset or no
\* file) and by start_download for a page that returned Ok; nothing follows
\* the end of the run.
C15_ErrorLeavesCheckpoint ==
    [][ /\ (pc = "process" /\ pos > Len(Items(page)) /\ NoOldestId(page)) => pc' = "done"
        /\ (pc \in {"fetch", "process"} /\ pc' = "done")
            => /\ ckfile' = ckfile
               /\ uc' = uc
               /\ result'.kind = "Summary"
        /\ ckfile' # ckfile => pc \in {"uc_create", "uc_write"}
        /\ (pc' = "uc_create" /\ pc # "uc_create")
            => \/ /\ pc = "loop"
                  /\ reset_once \/ ~ckfile.exists
                  /\ uc'.ret = "get_checkpoint"
                  /\ uc'.text = U64ToString(U64Max)
               \/ /\ pc = "process"
                  /\ uc'.ret = "start_download"
                  /\ stop'.hit \/ (pos > Len(Items(page)) /\ ~NoOldestId(page))
        /\ pc # "done"
      ]_vars

\* With download_all the second page says "no more data": the run ends and
\* the file holds the checkpoint of the first page.
C15_Witness ==
    /\ pc = "done"
    /\ download_all
    /\ iter = 2
    /\ result.kind = "Summary"
    /\ page.meta # None
    /\ page.meta[1].oldest_id = None
    /\ ckfile = FileWith(U64ToString(2))
    /\ uc.ret = "start_download"

\* C16: the step of get_twitter_id touches neither the output directory nor
\* the checkpoint (file, reset_once, update_checkpoint) nor the local files
\* and sends no page request; when it fails the run ends there with an error,
\* whatever the reset flag, and no step follows; an empty username fails
\* without a lookup request, any other sends one.
C16_IdentityFirst ==
    [][ /\ pc # "done"
        /\ pc = "start"
            => /\ dir_exists' = dir_exists
               /\ ckfile' = ckfile
               /\ reset_once' = reset_once
               /\ uc' = uc
               /\ checkpoint' = checkpoint
               /\ files' = files
               /\ iter' = 0
               /\ net'.pages = 0
               /\ pc' \in {"done", "mkdir"}
               /\ pc' = "done" => result'.kind = "Err"
               /\ pc' = "mkdir" => (username # "" /\ result' = Running)
               /\ username = "" => (pc' = "done" /\ net'.lookups = 0)
               /\ username # "" => net'.lookups = 1
      ]_vars

\* The lookup failed in a run with the reset flag: the run is over and the
\* checkpoint file still holds 5.
C16_Witness ==
    /\ pc = "done"
    /\ result.kind = "Err"
    /\ iter = 0
    /\ username = "u"
    /\ reset_marker
    /\ reset_once
    /\ ckfile = FileWith(U64ToString(5))
    /\ uc.ret = "none"
    /\ net = [lookups |-> 1, pages |-> 0]

\* C17: download_url is called for a media key only if the key is in the
\* page's media map and its media is a photo; any other key is passed over
\* with nothing fetched, written or counted; a photo without URL is an error
\* of the item: nothing fetched or counted, no early stop, the next key
\* follows.
C17_OnlyPhotosInTable ==
    [][ (pc = "process" /\ pos <= Len(Items(page)))
            => LET key == KeyAt(pos)
                   photo == /\ key \in MediaMap(page.includes)
                            /\ MediaOf(key).kind = "Photo"
                   passed == /\ got' = got
                             /\ files' = files
                             /\ torn' = torn
                             /\ count' = count
                             /\ downloaded' = downloaded
                             /\ total_count' = total_count
                             /\ stop' = stop
                             /\ uc' = uc
                             /\ pc' = "process"
                             /\ pos' = pos + 1
               IN /\ photo => attempted' = attempted \cup {pos}
                  /\ ~photo => (attempted' = attempted /\ failed' = failed /\ passed)
                  /\ (photo /\ MediaOf(key).url = None)
                        => (failed' = failed \cup {pos} /\ passed)
      ]_vars

\* A tweet with a photo without URL, a photo, a video and a key that is not
\* in the media map, without download_all: two calls of download_url, one
\* error, one file, no early stop.
C17_Witness ==
    /\ pc = "process"
    /\ ~download_all
    /\ pos = 5
    /\ KeyAt(1) = "nu"
    /\ KeyAt(3) = "v1"
    /\ KeyAt(4) = "zz"
    /\ attempted = {1, 2}
    /\ failed = {1}
    /\ got = {2}
    /\ count = 1
    /\ ~stop.hit

\* C18: with a provider that keeps to the cursor, the text start_download
\* hands to update_checkpoint after a page is a number strictly below the
\* cursor read for that page (so it is never the sentinel), get_checkpoint
\* writes the sentinel in the first iteration only, and each later iteration
\* reads a cursor strictly below the one before.
C18_CursorsDecrease ==
    /\ []((pc \in UcStates /\ uc.ret = "start_download")
            => /\ ParseU64(uc.text) # ParseErr
               /\ ParseU64(uc.text) < checkpoint
               /\ uc.text # U64ToString(U64Max))
    /\ []((pc \in UcStates /\ uc.ret = "get_checkpoint") => iter = 1)
    /\ [][ (pc = "loop" /\ iter >= 1 /\ pc' = "check") => checkpoint' < checkpoint ]_vars

\* The second iteration read the cursor 2, the oldest_id of the first page.
C18_Witness ==
    /\ pc = "check"
    /\ iter = 2
    /\ uc.ret = "start_download"
    /\ uc.text = U64ToString(2)
    /\ checkpoint = 2

\* C19: every local media file the run created holds the whole body of its
\* response, and no call of download_url takes a file that does not for one
\* already downloaded.
C19_FilesAreComplete ==
    /\ torn = {}
    /\ \A q \in attempted \ (got \cup failed) :
            LocalFilename(username, MediaOf(KeyAt(q))) \notin torn

====
